---- MODULE Spec2Model ----
(***************************************************************************)
(* Model of Pipe.pipe (src/owui-pipe.py): the SSE-to-callback relay with   *)
(* time-windowed token batching.                                           *)
(*                                                                         *)
(* One invocation of pipe() is one process.  pc is its position: the       *)
(* points where the coroutine is suspended (awaiting the connection, the   *)
(* next line, or the sink callback) and its two final positions, having    *)
(* returned a value or having let an exception out.                        *)
(*                                                                         *)
(* Text: a Python str that the code slices (a stream line) is a sequence   *)
(* of lexemes; " " is one whitespace character, "event:" and "data:" are   *)
(* the literal words, a JSON document is one lexeme holding its text.      *)
(* Text that the code only concatenates or returns is a TLA+ string.       *)
(* Time is in milliseconds.                                                *)
(***************************************************************************)
EXTENDS Integers, Sequences, FiniteSets, TLC

VARIABLES
    valves,         \* self.valves
    payload,        \* None, or Some of the config entries of the payload that depend on the tools
    event_emitter,  \* TRUE iff __event_emitter__ is not None
    pc,             \* position of the pipe() coroutine
    client,         \* httpx.AsyncClient: "none", "open", "closed"
    response,       \* streamed response:  "none", "open", "closed"
    network_calls,  \* number of requests handed to the transport
    current_event,  \* None or Some(tag)
    token_buffer,   \* str
    last_flush,     \* time.monotonic() at the last flush
    now,            \* time.monotonic()
    data,           \* the parsed frame being handled across an await
    flush_from,     \* call site of the flush_buffer() being awaited
    emitted,        \* sink events the sink callback has accepted, in order
    result,         \* value returned by pipe()
    status_code,    \* response.status_code, 0 while there is no response
    line,           \* the line being handled, after line.strip()
    frame_tag,      \* history: current_event as the last data line found it
    lines_read,     \* number of lines taken from response.aiter_lines()
    appended,       \* history: concatenation of every content appended to token_buffer
    done_seen,      \* history: the [DONE] sentinel was processed
    last_exc,       \* history: class of the last exception raised inside the try block
    batch_only      \* history: every line so far was a token frame handled inside the flush window

vars == <<valves, payload, frame_tag, event_emitter, pc, client, response, network_calls,
          current_event, token_buffer, last_flush, now, data, flush_from,
          emitted, result, status_code, line, lines_read, appended, done_seen,
          last_exc, batch_only>>

-----------------------------------------------------------------------------
(* Bounds *)

MaxLines == 3

-----------------------------------------------------------------------------
(* JSON values as Python objects *)

JNull == [t |-> "null"]
JNum(n) == [t |-> "num", n |-> n]
JStr(s) == [t |-> "str", s |-> s]
JList(e) == [t |-> "list", e |-> e]
JDict(f) == [t |-> "dict", f |-> f]
JBool(b) == [t |-> "bool", b |-> b]

EmptyDict == JDict(<<>>)

IsDict(v) == v.t = "dict"

\* Python truth value of a JSON value
Truthy(v) ==
    CASE v.t = "null" -> FALSE
      [] v.t = "bool" -> v.b
      [] v.t = "num"  -> v.n # 0
      [] v.t = "str"  -> v.s # ""
      [] v.t = "list" -> v.e # <<>>
      [] v.t = "dict" -> DOMAIN v.f # {}

\* a and b, a or b: the value is one of the operands
PyAnd(a, b) == IF Truthy(a) THEN b ELSE a
PyOr(a, b) == IF Truthy(a) THEN a ELSE b

\* dict.get(key, default); the caller has checked IsDict(d)
DictGet(d, key, default) == IF key \in DOMAIN d.f THEN d.f[key] ELSE default

-----------------------------------------------------------------------------
(* Stream lines *)

SP == " "

IsSpace(c) == c = SP

RECURSIVE lstrip(_)
lstrip(s) == IF s # <<>> /\ IsSpace(Head(s)) THEN lstrip(Tail(s)) ELSE s

RECURSIVE rstrip(_)
rstrip(s) ==
    IF s # <<>> /\ IsSpace(s[Len(s)]) THEN rstrip(SubSeq(s, 1, Len(s) - 1)) ELSE s

\* str.strip()
strip(s) == rstrip(lstrip(s))

\* str.startswith(prefix)
startswith(s, prefix) ==
    Len(s) >= Len(prefix) /\ SubSeq(s, 1, Len(prefix)) = prefix

\* s[len(prefix):]
SliceFrom(s, prefix) == SubSeq(s, Len(prefix) + 1, Len(s))

EVENT_PREFIX == <<"event:", SP>>
DATA_PREFIX == <<"data:", SP>>
DONE == <<"[DONE]">>

None == <<>>
Some(tag) == <<tag>>

TXT_STATUS  == "{\"data\":{\"phase\":\"searching\"}}"
TXT_HE      == "{\"choices\":[{\"delta\":{\"content\":\"He\"}}]}"
TXT_LLO     == "{\"choices\":[{\"delta\":{\"content\":\"llo\"}}]}"
TXT_ROLE    == "{\"choices\":[{\"delta\":{\"role\":\"assistant\"}}]}"
TXT_EMPTY   == "{}"
TXT_NUMBER  == "5"
TXT_NULLDELTA == "{\"choices\":[{\"delta\":null}]}"
TXT_NUMCONTENT == "{\"choices\":[{\"delta\":{\"content\":7}}]}"
TXT_BAD     == "{bad"

Token(s) == JDict("choices" :> JList(<<JDict("delta" :> JDict("content" :> JStr(s)))>>))

\* the JSON documents of the model and the values json.loads gives for them
JSONText ==
    (TXT_STATUS :> JDict("data" :> JDict("phase" :> JStr("searching"))))
 @@ (TXT_HE :> Token("He"))
 @@ (TXT_LLO :> Token("llo"))
 @@ (TXT_ROLE :> JDict("choices" :> JList(<<JDict("delta" :> JDict("role" :> JStr("assistant")))>>)))
 @@ (TXT_EMPTY :> EmptyDict)
 @@ (TXT_NUMBER :> JNum(5))
 @@ (TXT_NULLDELTA :> JDict("choices" :> JList(<<JDict("delta" :> JNull)>>)))
 @@ (TXT_NUMCONTENT :> JDict("choices" :> JList(<<JDict("delta" :> JDict("content" :> JNum(7)))>>)))

\* json.loads(s): surrounding whitespace is skipped, then exactly one JSON
\* document must follow; anything else raises JSONDecodeError
json_loads(s) ==
    LET body == strip(s) IN
    IF Len(body) = 1 /\ body[1] \in DOMAIN JSONText
    THEN [ok |-> TRUE, v |-> JSONText[body[1]]]
    ELSE [ok |-> FALSE, v |-> JNull]

\* the lines the server may send, as received (before line.strip())
Lines ==
    { <<>>,
      <<SP>>,
      <<"event:", SP, "status">>,
      <<"event:", SP, SP, "source", SP>>,
      <<"event:", SP, "message">>,
      <<"event:", "status">>,
      <<": keep-alive">>,
      <<"data:", SP, "[DONE]">>,
      <<SP, "data:", SP, "[DONE]", SP>>,
      <<"data:", SP, SP, "[DONE]">>,
      <<"data:", SP, TXT_BAD>>,
      <<"data:", SP, TXT_STATUS>>,
      <<"data:", SP, TXT_HE>>,
      <<"data:", SP, TXT_LLO>>,
      <<"data:", SP, TXT_ROLE>>,
      <<"data:", SP, TXT_EMPTY>>,
      <<"data:", SP, TXT_NUMBER>>,
      <<"data:", SP, TXT_NULLDELTA>>,
      <<"data:", SP, TXT_NUMCONTENT>> }

-----------------------------------------------------------------------------
(* Time *)

FLUSH_INTERVAL == 50

\* time that may pass while the coroutine is suspended
TimeSteps == {0, 20, 50}

-----------------------------------------------------------------------------
(* Sink events *)

Message(content) == [type |-> "message", content |-> content]
Status(d) == [type |-> "status", data |-> d]
Citation(d) == [type |-> "citation", data |-> d]

-----------------------------------------------------------------------------
(* Exceptions and the except clauses of pipe() *)

TimeoutExceptions == {"ConnectTimeout", "ReadTimeout", "WriteTimeout", "PoolTimeout"}

Exc(cls, msg) == [cls |-> cls, msg |-> msg, status_code |-> 0]
HTTPStatusError(code) == [cls |-> "HTTPStatusError", msg |-> "status", status_code |-> code]

ExceptClauses_NoCatchAll(e, url) ==
    IF e.cls \in TimeoutExceptions THEN [caught |-> TRUE, value |-> "Error: Request timed out"]
    ELSE IF e.cls = "ConnectError" THEN [caught |-> TRUE, value |-> "Error: Could not connect to " \o url]
    ELSE IF e.cls = "HTTPStatusError" THEN [caught |-> TRUE, value |-> "Error: HTTP " \o ToString(e.status_code)]
    ELSE [caught |-> FALSE, value |-> ""]

ExceptClauses_Swallow(e, url) ==
    IF e.cls \in TimeoutExceptions THEN [caught |-> TRUE, value |-> "Error: Request timed out"]
    ELSE IF e.cls = "ConnectError" THEN [caught |-> TRUE, value |-> "Error: Could not connect to " \o url]
    ELSE IF e.cls = "HTTPStatusError" THEN [caught |-> TRUE, value |-> "Error: HTTP " \o ToString(e.status_code)]
    ELSE IF e.cls = "CancelledError" THEN [caught |-> FALSE, value |-> ""]
    ELSE [caught |-> TRUE, value |-> ""]

ExceptClauses_NoTimeoutClause(e, url) ==
    IF e.cls = "ConnectError" THEN [caught |-> TRUE, value |-> "Error: Could not connect to " \o url]
    ELSE IF e.cls = "HTTPStatusError" THEN [caught |-> TRUE, value |-> "Error: HTTP " \o ToString(e.status_code)]
    ELSE IF e.cls = "CancelledError" THEN [caught |-> FALSE, value |-> ""]
    ELSE [caught |-> TRUE, value |-> "Error: " \o e.msg]

\* what the except clauses make of an exception raised inside the try block
ExceptClauses(e, url) ==
    IF e.cls \in TimeoutExceptions THEN [caught |-> TRUE, value |-> "Error: Request timed out"]
    ELSE IF e.cls = "ConnectError" THEN [caught |-> TRUE, value |-> "Error: Could not connect to " \o url]
    ELSE IF e.cls = "HTTPStatusError" THEN [caught |-> TRUE, value |-> "Error: HTTP " \o ToString(e.status_code)]
    ELSE IF e.cls = "CancelledError" THEN [caught |-> FALSE, value |-> ""]
    ELSE [caught |-> TRUE, value |-> "Error: " \o e.msg]

-----------------------------------------------------------------------------
(* Pieces of pipe() *)

STATUS == <<"status">>
SOURCE == <<"source">>

URLs == {"", "http://localhost:3000"}
Keys == {"", "secret"}

\* status codes the server may answer with
StatusCodes == {200, 302, 404, 503}

\* exceptions client.stream() may raise before a response is there
ConnectExceptions ==
    { Exc("ConnectTimeout", "connect timed out"),
      Exc("WriteTimeout", "write timed out"),
      Exc("ReadTimeout", "read timed out"),
      Exc("PoolTimeout", "pool timed out"),
      Exc("ConnectError", "All connection attempts failed"),
      Exc("UnsupportedProtocol", "Request URL has an unsupported protocol") }

\* exceptions response.aiter_lines() may raise
ReadExceptions ==
    { Exc("ReadTimeout", "read timed out"),
      Exc("ReadError", "connection reset"),
      Exc("RemoteProtocolError", "peer closed connection") }

\* exceptions the sink callback may raise
SinkExceptions ==
    { Exc("RuntimeError", "sink failed"),
      Exc("RuntimeError", "Request timed out") }

ToolToggles ==
    {"ENABLE_WEB_SEARCH", "ENABLE_WEB_SCRAPE", "ENABLE_DEEP_RESEARCH", "ENABLE_SANDBOX",
     "ENABLE_IMAGE_GENERATION", "ENABLE_IMAGE_EDIT", "ENABLE_IMAGE_BLEND",
     "ENABLE_MEMORY", "ENABLE_DATE_TIME", "ENABLE_FILE_RECALL"}

\* the field defaults of class Valves
DefaultValves ==
    [ TOOLSET_API_URL |-> "http://localhost:3000",
      TOOLSET_API_KEY |-> "",
      TOOL_CALLING_LLM_PROVIDER |-> "anthropic",
      TOOL_CALLING_LLM_MODEL |-> "claude-sonnet-4-5",
      CONVERSATIONAL_LLM_PROVIDER |-> "openai",
      CONVERSATIONAL_LLM_MODEL |-> "gpt-5.2",
      TAVILY_API_KEY |-> "",
      COMFYUI_BASE_URL |-> "",
      FILE_RECALL_INSTANCE_ID |-> "",
      ENABLE_WEB_SEARCH |-> TRUE,
      ENABLE_WEB_SCRAPE |-> TRUE,
      ENABLE_DEEP_RESEARCH |-> TRUE,
      ENABLE_SANDBOX |-> TRUE,
      ENABLE_IMAGE_GENERATION |-> TRUE,
      ENABLE_IMAGE_EDIT |-> TRUE,
      ENABLE_IMAGE_BLEND |-> TRUE,
      ENABLE_MEMORY |-> TRUE,
      ENABLE_DATE_TIME |-> TRUE,
      ENABLE_FILE_RECALL |-> FALSE ]

\* every setting of the toggles and of the three service settings
ToolValves ==
    { [f \in DOMAIN DefaultValves |->
          IF f \in ToolToggles THEN f \in on
          ELSE IF f = "TOOLSET_API_KEY" THEN "secret"
          ELSE IF f = "TAVILY_API_KEY" THEN tavily
          ELSE IF f = "COMFYUI_BASE_URL" THEN comfy
          ELSE IF f = "FILE_RECALL_INSTANCE_ID" THEN inst
          ELSE DefaultValves[f]] :
        on \in SUBSET ToolToggles,
        tavily \in {"", "tvly-key"},
        comfy \in {"", "http://10.0.0.25:8188"},
        inst \in {"", "client-a"} }

\* Pipe._has_tools_enabled: the Python value of the or chain
has_tools_enabled(v) ==
    LET has_web_tools ==
            PyAnd(JStr(v.TAVILY_API_KEY),
                  PyOr(PyOr(JBool(v.ENABLE_WEB_SEARCH), JBool(v.ENABLE_WEB_SCRAPE)),
                       JBool(v.ENABLE_DEEP_RESEARCH)))
        has_image_tools ==
            PyAnd(JStr(v.COMFYUI_BASE_URL),
                  PyOr(PyOr(JBool(v.ENABLE_IMAGE_GENERATION), JBool(v.ENABLE_IMAGE_EDIT)),
                       JBool(v.ENABLE_IMAGE_BLEND)))
        has_file_recall ==
            PyAnd(JStr(v.FILE_RECALL_INSTANCE_ID), JBool(v.ENABLE_FILE_RECALL))
    IN  PyOr(PyOr(PyOr(PyOr(PyOr(has_web_tools, has_image_tools),
                            JBool(v.ENABLE_SANDBOX)),
                       JBool(v.ENABLE_MEMORY)),
                  JBool(v.ENABLE_DATE_TIME)),
             has_file_recall)

\* llm_provider, llm_model and use_tools of payload["config"]
PayloadConfig(v) ==
    LET use_tools == has_tools_enabled(v) IN
    [ llm_provider |-> IF Truthy(use_tools) THEN v.TOOL_CALLING_LLM_PROVIDER
                       ELSE v.CONVERSATIONAL_LLM_PROVIDER,
      llm_model |-> IF Truthy(use_tools) THEN v.TOOL_CALLING_LLM_MODEL
                    ELSE v.CONVERSATIONAL_LLM_MODEL,
      use_tools |-> use_tools ]

ConfigCheck_UrlOnly(v) ==
    IF v.TOOLSET_API_URL = "" THEN Some("Error: TOOLSET_API_URL not configured")
    ELSE None

\* the two configuration checks at the top of pipe()
ConfigCheck(v) ==
    IF v.TOOLSET_API_URL = "" THEN Some("Error: TOOLSET_API_URL not configured")
    ELSE IF v.TOOLSET_API_KEY = "" THEN Some("Error: TOOLSET_API_KEY not configured")
    ELSE None

IsSuccess_NotError(code) == code < 400

\* response.raise_for_status(): passes for a 2xx response only
IsSuccess(code) == code \in 200..299

NeedsFlush_WindowOnly(tb, em) == tb # "" /\ em /\ now - last_flush >= FLUSH_INTERVAL

NeedsFlush_NoEmptyTest(tb, em) == em

\* the guard of flush_buffer()
NeedsFlush(tb, em) == tb # "" /\ em

WindowElapsed_Always(t, lf) == TRUE

\* the timer test of the token branch
WindowElapsed(t, lf) == t - lf >= FLUSH_INTERVAL

Branch_AnyTag(ce, em) ==
    IF ce = Some(SOURCE) /\ em THEN "source"
    ELSE IF ce # None /\ em THEN "status"
    ELSE "token"

\* which branch of the if/elif chain handles a parsed frame
Branch(ce, em) ==
    IF ce = Some(STATUS) /\ em THEN "status"
    ELSE IF ce = Some(SOURCE) /\ em THEN "source"
    ELSE "token"

AttributeError(v) ==
    Exc("AttributeError",
        CASE v.t = "null" -> "'NoneType' object has no attribute 'get'"
          [] v.t = "num"  -> "'int' object has no attribute 'get'"
          [] v.t = "str"  -> "'str' object has no attribute 'get'"
          [] v.t = "list" -> "'list' object has no attribute 'get'"
          [] OTHER        -> "")

NoExc == Exc("", "")

\* the third branch: data.get('choices') and __event_emitter__, then
\* data['choices'][0].get('delta', {}).get('content', '') and the test of
\* content; gives the text to append ("" when nothing is appended) or the
\* exception raised on the way
TokenContent(d, em) ==
    IF ~IsDict(d) THEN [exc |-> AttributeError(d), content |-> ""]
    ELSE LET choices == DictGet(d, "choices", JNull) IN
    IF ~(Truthy(choices) /\ em) THEN [exc |-> NoExc, content |-> ""]
    ELSE IF choices.t = "dict" THEN [exc |-> Exc("KeyError", "0"), content |-> ""]
    ELSE IF choices.t = "num" THEN [exc |-> Exc("TypeError", "'int' object is not subscriptable"), content |-> ""]
    ELSE LET first == IF choices.t = "list" THEN choices.e[1] ELSE choices IN
    IF ~IsDict(first) THEN [exc |-> AttributeError(first), content |-> ""]
    ELSE LET delta == DictGet(first, "delta", EmptyDict) IN
    IF ~IsDict(delta) THEN [exc |-> AttributeError(delta), content |-> ""]
    ELSE LET content == DictGet(delta, "content", JStr("")) IN
    IF ~Truthy(content) THEN [exc |-> NoExc, content |-> ""]
    ELSE IF content.t # "str"
         THEN [exc |-> Exc("TypeError", "can only concatenate str to str"), content |-> ""]
    ELSE [exc |-> NoExc, content |-> content.s]

\* the event of the status and source branches
TaggedEvent(ce, d) ==
    IF ce = Some(STATUS) THEN Status(DictGet(d, "data", EmptyDict))
    ELSE Citation(DictGet(d, "data", EmptyDict))

Close_Leak(r) == r

\* __aexit__ of the two async with blocks
Close(r) == IF r = "open" THEN "closed" ELSE r

\* control stays inside the try block
Stay == UNCHANGED <<result, client, response, last_exc>>

Return_NoClose(value, cls) ==
    /\ pc' = "returned"
    /\ result' = Some(value)
    /\ UNCHANGED <<client, response>>
    /\ last_exc' = cls
    /\ flush_from' = "none"
    /\ data' = JNull

\* leaving pipe() with a value: both context managers exit first
Return(value, cls) ==
    /\ pc' = "returned"
    /\ result' = Some(value)
    /\ client' = Close(client)
    /\ response' = Close(response)
    /\ last_exc' = cls
    /\ flush_from' = "none"
    /\ data' = JNull

\* an exception raised inside the try block
Raise(e) ==
    LET h == ExceptClauses(e, valves.TOOLSET_API_URL) IN
    IF h.caught THEN Return(h.value, e.cls)
    ELSE /\ pc' = "raised"
         /\ result' = None
         /\ client' = Close(client)
         /\ response' = Close(response)
         /\ last_exc' = e.cls
         /\ flush_from' = "none"
         /\ data' = JNull

\* back to async for: the frame is handled, current_event = None
ContinueLoop ==
    /\ pc' = "lines"
    /\ current_event' = None
    /\ data' = JNull
    /\ flush_from' = "none"
    /\ Stay

LeaveLoop_Continue(tb) ==
    /\ pc' = "lines"
    /\ data' = JNull
    /\ flush_from' = "none"
    /\ UNCHANGED current_event
    /\ Stay

\* break, then the final flush_buffer() with buffer tb and return ""
LeaveLoop(tb) ==
    /\ UNCHANGED current_event
    /\ IF NeedsFlush(tb, event_emitter)
       THEN /\ pc' = "flush"
            /\ flush_from' = "final"
            /\ data' = JNull
            /\ Stay
       ELSE Return("", "")

\* control after the flush_buffer() called at site k has returned, tb being
\* the buffer it leaves and d the frame being handled
Resume(k, tb, d) ==
    CASE k \in {"status", "source"} ->
            \* data.get('data', {}), then the sink callback is awaited
            /\ UNCHANGED current_event
            /\ IF IsDict(d)
               THEN /\ pc' = "emit"
                    /\ data' = d
                    /\ flush_from' = "none"
                    /\ Stay
               ELSE Raise(AttributeError(d))
      [] k = "token" -> ContinueLoop
      [] k = "done" -> LeaveLoop(tb)
      [] k = "final" -> /\ Return("", "")
                        /\ UNCHANGED current_event

\* await flush_buffer() at site k with buffer tb
CallFlush(k, tb, d) ==
    /\ token_buffer' = tb
    /\ IF NeedsFlush(tb, event_emitter)
       THEN /\ pc' = "flush"
            /\ flush_from' = k
            /\ data' = d
            /\ UNCHANGED current_event
            /\ Stay
       ELSE Resume(k, tb, d)

SkipLine_ClearsTag ==
    /\ current_event' = None
    /\ UNCHANGED <<pc, token_buffer, data, flush_from, appended, done_seen>>
    /\ Stay

\* if not line: continue; and a line with neither prefix
SkipLine ==
    /\ UNCHANGED <<pc, current_event, token_buffer, data, flush_from, appended, done_seen>>
    /\ Stay

\* current_event = line[7:].strip()
SetEvent(l) ==
    /\ current_event' = Some(strip(SliceFrom(l, EVENT_PREFIX)))
    /\ UNCHANGED <<pc, token_buffer, data, flush_from, appended, done_seen>>
    /\ Stay

\* data_str == '[DONE]': await flush_buffer(); break
HandleDone ==
    /\ done_seen' = TRUE
    /\ CallFlush("done", token_buffer, JNull)
    /\ UNCHANGED appended

HandleDecodeError_Raise ==
    /\ Raise(Exc("JSONDecodeError", "Expecting property name enclosed in double quotes"))
    /\ UNCHANGED <<current_event, token_buffer, appended, done_seen>>

HandleDecodeError_KeepTag ==
    /\ UNCHANGED <<pc, current_event, token_buffer, data, flush_from, appended, done_seen>>
    /\ Stay

\* except json.JSONDecodeError: current_event = None
HandleDecodeError ==
    /\ current_event' = None
    /\ UNCHANGED <<pc, token_buffer, data, flush_from, appended, done_seen>>
    /\ Stay

HandleTagged_NoFlush(k, d) ==
    /\ token_buffer' = token_buffer
    /\ Resume(k, token_buffer, d)
    /\ UNCHANGED <<appended, done_seen>>

\* the status and source branches: await flush_buffer(), then the event
HandleTagged(k, d) ==
    /\ CallFlush(k, token_buffer, d)
    /\ UNCHANGED <<appended, done_seen>>

\* the third branch
HandleToken(d) ==
    LET tc == TokenContent(d, event_emitter) IN
    /\ UNCHANGED done_seen
    /\ IF tc.exc # NoExc THEN
            /\ Raise(tc.exc)
            /\ UNCHANGED <<current_event, token_buffer, appended>>
       ELSE IF tc.content = "" THEN
            /\ ContinueLoop
            /\ UNCHANGED <<token_buffer, appended>>
       ELSE
            /\ appended' = appended \o tc.content
            /\ IF WindowElapsed(now', last_flush)
               THEN CallFlush("token", token_buffer \o tc.content, JNull)
               ELSE /\ token_buffer' = token_buffer \o tc.content
                    /\ ContinueLoop

-----------------------------------------------------------------------------
(* Actions *)

\* everything but the valves and the sink
InitRest ==
    /\ payload = None
    /\ frame_tag = None
    /\ pc = "idle"
    /\ client = "none"
    /\ response = "none"
    /\ network_calls = 0
    /\ current_event = None
    /\ token_buffer = ""
    /\ last_flush = 0
    /\ now = 0
    /\ data = JNull
    /\ flush_from = "none"
    /\ emitted = <<>>
    /\ result = None
    /\ status_code = 0
    /\ line = <<>>
    /\ lines_read = 0
    /\ appended = ""
    /\ done_seen = FALSE
    /\ last_exc = ""
    /\ batch_only = TRUE

\* the tool valves as Valves() makes them, any endpoint and credential
Init ==
    /\ valves \in {[DefaultValves EXCEPT !.TOOLSET_API_URL = u, !.TOOLSET_API_KEY = k] :
                        u \in URLs, k \in Keys}
    /\ event_emitter \in BOOLEAN
    /\ InitRest

\* any setting of the tool valves
InitTools ==
    /\ valves \in ToolValves
    /\ event_emitter = TRUE
    /\ InitRest

\* pipe() is called: configuration checks, payload, client and request
Call ==
    /\ pc = "idle"
    /\ IF ConfigCheck(valves) # None
       THEN /\ pc' = "returned"
            /\ result' = ConfigCheck(valves)
            /\ UNCHANGED <<client, network_calls, payload>>
       ELSE /\ pc' = "connecting"
            /\ payload' = Some(PayloadConfig(valves))
            /\ client' = "open"
            /\ network_calls' = network_calls + 1
            /\ UNCHANGED result
    /\ UNCHANGED <<valves, frame_tag, event_emitter, response, current_event, token_buffer,
                   last_flush, now, data, flush_from, emitted, status_code, line,
                   lines_read, appended, done_seen, last_exc, batch_only>>

\* the response arrives with status code: raise_for_status(), then the
\* parse state is set up
Connect(code, dt) ==
    /\ pc = "connecting"
    /\ now' = now + dt
    /\ status_code' = code
    /\ IF IsSuccess(code)
       THEN /\ response' = "open"
            /\ pc' = "lines"
            /\ current_event' = None
            /\ token_buffer' = ""
            /\ last_flush' = now'
            /\ UNCHANGED <<client, result, last_exc, flush_from, data>>
       ELSE /\ response' = Close("open")
            /\ client' = Close(client)
            /\ pc' = "returned"
            /\ result' = Some(ExceptClauses(HTTPStatusError(code), valves.TOOLSET_API_URL).value)
            /\ last_exc' = "HTTPStatusError"
            /\ UNCHANGED <<current_event, token_buffer, last_flush, flush_from, data>>
    /\ UNCHANGED <<valves, payload, frame_tag, event_emitter, network_calls, emitted, line, lines_read,
                   appended, done_seen, batch_only>>

\* client.stream() raises before there is a response
ConnectFail(e) ==
    /\ pc = "connecting"
    /\ Raise(e)
    /\ UNCHANGED <<valves, payload, frame_tag, event_emitter, network_calls, current_event, token_buffer,
                   last_flush, now, emitted, status_code, line, lines_read, appended,
                   done_seen, batch_only>>

\* one line arrives and is handled up to the next await
NextLine(raw, dt) ==
    /\ pc = "lines"
    /\ lines_read < MaxLines
    /\ lines_read' = lines_read + 1
    /\ now' = now + dt
    /\ line' = strip(raw)
    /\ frame_tag' = IF startswith(line', DATA_PREFIX) THEN current_event ELSE frame_tag
    /\ UNCHANGED <<valves, payload, event_emitter, network_calls, emitted, last_flush, status_code>>
    /\ IF line' = <<>> THEN SkipLine
       ELSE IF startswith(line', EVENT_PREFIX) THEN SetEvent(line')
       ELSE IF startswith(line', DATA_PREFIX) THEN
            LET data_str == SliceFrom(line', DATA_PREFIX) IN
            IF data_str = DONE THEN HandleDone
            ELSE LET parsed == json_loads(data_str) IN
            IF ~parsed.ok THEN HandleDecodeError
            ELSE IF Branch(current_event, event_emitter) \in {"status", "source"}
                 THEN HandleTagged(Branch(current_event, event_emitter), parsed.v)
            ELSE HandleToken(parsed.v)
       ELSE SkipLine
    /\ batch_only' = (/\ batch_only
                      /\ \/ done_seen' # done_seen
                         \/ appended' # appended /\ now' - last_flush < FLUSH_INTERVAL)

\* response.aiter_lines() is exhausted: the final flush_buffer()
EndOfStream ==
    /\ pc = "lines"
    /\ CallFlush("final", token_buffer, JNull)
    /\ UNCHANGED <<valves, payload, frame_tag, event_emitter, network_calls, last_flush, now, emitted,
                   status_code, line, lines_read, appended, done_seen, batch_only>>

\* response.aiter_lines() raises
ReadFail(e) ==
    /\ pc = "lines"
    /\ Raise(e)
    /\ UNCHANGED <<valves, payload, frame_tag, event_emitter, network_calls, current_event, token_buffer,
                   last_flush, now, emitted, status_code, line, lines_read, appended,
                   done_seen, batch_only>>

\* the sink callback awaited inside flush_buffer() returns; the time the
\* sink takes is counted with the wait for the next line
FlushReturn ==
    /\ pc = "flush"
    /\ emitted' = Append(emitted, Message(token_buffer))
    /\ last_flush' = now
    /\ token_buffer' = ""
    /\ Resume(flush_from, "", data)
    /\ UNCHANGED <<now, valves, payload, frame_tag, event_emitter, network_calls, status_code, line, lines_read,
                   appended, done_seen, batch_only>>

\* the sink callback awaited in the status or source branch returns
EmitReturn ==
    /\ pc = "emit"
    /\ emitted' = Append(emitted, TaggedEvent(current_event, data))
    /\ ContinueLoop
    /\ UNCHANGED <<now, valves, payload, frame_tag, event_emitter, network_calls, token_buffer, last_flush,
                   status_code, line, lines_read, appended, done_seen, batch_only>>

\* the sink callback raises
SinkFail(e) ==
    /\ pc \in {"flush", "emit"}
    /\ Raise(e)
    /\ UNCHANGED <<valves, payload, frame_tag, event_emitter, network_calls, current_event, token_buffer,
                   last_flush, now, emitted, status_code, line, lines_read, appended,
                   done_seen, batch_only>>

\* the task running pipe() is cancelled while suspended
Cancel ==
    /\ pc \in {"connecting", "lines", "flush", "emit"}
    /\ Raise(Exc("CancelledError", ""))
    /\ UNCHANGED <<valves, payload, frame_tag, event_emitter, network_calls, current_event, token_buffer,
                   last_flush, now, emitted, status_code, line, lines_read, appended,
                   done_seen, batch_only>>

Next ==
    \/ Call
    \/ \E code \in StatusCodes, dt \in TimeSteps : Connect(code, dt)
    \/ \E e \in ConnectExceptions : ConnectFail(e)
    \/ \E raw \in Lines, dt \in TimeSteps : NextLine(raw, dt)
    \/ EndOfStream
    \/ \E e \in ReadExceptions : ReadFail(e)
    \/ FlushReturn
    \/ EmitReturn
    \/ \E e \in SinkExceptions : SinkFail(e)
    \/ Cancel

Spec == Init /\ [][Next]_vars

\* pipe() up to the request, over every setting of the tool valves
NextTools == Call

SpecTools == InitTools /\ [][NextTools]_vars

TypeOK ==
    /\ pc \in {"idle", "connecting", "lines", "flush", "emit", "returned", "raised"}
    /\ client \in {"none", "open", "closed"}
    /\ response \in {"none", "open", "closed"}
    /\ flush_from \in {"none", "done", "status", "source", "token", "final"}
    /\ lines_read \in 0..MaxLines
    /\ pc # "flush" <=> flush_from = "none"

-----------------------------------------------------------------------------
(* Properties *)

\* concatenation of the contents of the Message events of a sequence of events
RECURSIVE ConcatMessages(_)
ConcatMessages(evts) ==
    IF evts = <<>> THEN ""
    ELSE (IF Head(evts).type = "message" THEN Head(evts).content ELSE "")
         \o ConcatMessages(Tail(evts))

\* C1: when a Status or Citation event is emitted, token_buffer is empty and
\* every content appended from earlier lines is already in a Message event.
C1_StatusAfterTokens ==
    [][ (emitted' # emitted /\ emitted'[Len(emitted')].type \in {"status", "citation"})
          => /\ token_buffer = ""
             /\ token_buffer' = ""
             /\ ConcatMessages(emitted) = appended ]_vars

C1_Witness ==
    /\ Len(emitted) = 2
    /\ emitted[1] = Message("He")
    /\ emitted[2] = Status(JDict("phase" :> JStr("searching")))
    /\ now - last_flush < FLUSH_INTERVAL

\* C2: when pipe() returns "" with a sink present, token_buffer is empty and
\* the Message events emitted hold, in order and once, exactly the text
\* appended to token_buffer.
C2_NoTokenLost ==
    (pc = "returned" /\ result = Some("") /\ event_emitter)
        => (token_buffer = "" /\ ConcatMessages(emitted) = appended)

C2_Witness ==
    /\ pc = "returned"
    /\ result = Some("")
    /\ ~done_seen
    /\ batch_only
    /\ emitted = <<Message("Hello")>>

\* C3: the step that handles data: [DONE] awaits the flush of a non-empty
\* buffer whatever the time elapsed, and otherwise returns ""; after it no
\* line is taken or classified, the tag and the buffered text do not
\* change, the only event that may follow is the Message of the buffer, and
\* unless the sink fails or the task is cancelled pipe() returns "".
C3_DoneTerminates ==
    /\ [][ (~done_seen /\ done_seen')
             => IF token_buffer # "" /\ event_emitter
                THEN pc' = "flush" /\ token_buffer' = token_buffer
                ELSE pc' = "returned" /\ result' = Some("") ]_vars
    /\ [][ done_seen
             => /\ lines_read' = lines_read
                /\ line' = line
                /\ current_event' = current_event
                /\ appended' = appended
                /\ pc' \in {"returned", "raised"}
                /\ \/ emitted' = emitted /\ last_exc' # ""
                   \/ /\ emitted' = Append(emitted, Message(token_buffer))
                      /\ token_buffer # ""
                      /\ result' = Some("") ]_vars

C3_Witness ==
    /\ done_seen
    /\ pc = "returned"
    /\ result = Some("")
    /\ emitted = <<Message("He")>>
    /\ now - last_flush < FLUSH_INTERVAL
    /\ now < FLUSH_INTERVAL
    /\ lines_read < MaxLines

\* C4: token frames all handled less than FLUSH_INTERVAL after last_flush
\* and then data: [DONE] give exactly one Message, the concatenation of
\* their contents; handling such a token frame starts no sink call.
C4_BatchingCollapses ==
    /\ [](  (done_seen /\ batch_only /\ event_emitter /\ appended # ""
                /\ pc = "returned" /\ result = Some(""))
            => emitted = <<Message(appended)>> )
    /\ [][ (appended' # appended /\ now' - last_flush < FLUSH_INTERVAL)
             => (emitted' = emitted /\ pc' = "lines" /\ last_flush' = last_flush) ]_vars

C4_Witness ==
    /\ done_seen
    /\ batch_only
    /\ pc = "returned"
    /\ lines_read = 3
    /\ emitted = <<Message("Hello")>>

\* a data line whose remainder is neither the sentinel nor valid JSON
IsMalformedFrame(l) ==
    /\ startswith(l, DATA_PREFIX)
    /\ SliceFrom(l, DATA_PREFIX) # DONE
    /\ ~json_loads(SliceFrom(l, DATA_PREFIX)).ok

\* C5: handling a data frame that is not valid JSON changes nothing but the
\* tag, which becomes None: no event, same buffer and timer, no return and
\* no exception, so the frames that follow meet the state they would have
\* met without it.
C5_MalformedSkipped ==
    [][ (lines_read' = lines_read + 1 /\ IsMalformedFrame(line'))
          => /\ current_event' = None
             /\ pc' = "lines"
             /\ UNCHANGED <<valves, event_emitter, client, response, network_calls,
                            token_buffer, last_flush, data, flush_from, emitted,
                            result, status_code, appended, done_seen, last_exc>> ]_vars

C5_Witness ==
    /\ IsMalformedFrame(line)
    /\ pc = "lines"
    /\ lines_read = 2
    /\ token_buffer = "He"
    /\ current_event = None

\* C6: with an empty TOOLSET_API_URL or TOOLSET_API_KEY, pipe() returns the
\* configuration error at once: no request, no client, no sink event.
C6_ConfigError ==
    (valves.TOOLSET_API_URL = "" \/ valves.TOOLSET_API_KEY = "")
        => /\ network_calls = 0
           /\ client = "none"
           /\ response = "none"
           /\ emitted = <<>>
           /\ pc \in {"idle", "returned"}
           /\ pc = "returned"
                => result \in { Some("Error: TOOLSET_API_URL not configured"),
                                Some("Error: TOOLSET_API_KEY not configured") }

C6_Witness ==
    /\ pc = "returned"
    /\ valves.TOOLSET_API_URL # ""
    /\ valves.TOOLSET_API_KEY = ""
    /\ result = Some("Error: TOOLSET_API_KEY not configured")

\* C7: only a cancellation leaves pipe() as an exception; every other end is
\* one returned value, which stays, and which is a failure value, not "",
\* whenever an exception was raised inside the try block.
C7_OneTerminalValue ==
    /\ [](pc = "raised" => last_exc = "CancelledError")
    /\ [](pc = "returned" <=> result # None)
    /\ []((pc = "returned" /\ last_exc # "") => (result # None /\ result # Some("")))
    /\ [][ result # None => (result' = result /\ pc' = pc) ]_vars

C7_Witness ==
    /\ pc = "returned"
    /\ last_exc = "RuntimeError"
    /\ result = Some("Error: sink failed")
    /\ emitted # <<>>

\* C8: a response whose status code is not 2xx makes pipe() return
\* "Error: HTTP <code>"; no line of it is taken and no event is emitted.
C8_HTTPStatus ==
    (status_code # 0 /\ status_code \notin 200..299)
        => /\ pc = "returned"
           /\ result = Some("Error: HTTP " \o ToString(status_code))
           /\ lines_read = 0
           /\ line = <<>>
           /\ emitted = <<>>
           /\ token_buffer = ""

C8_Witness ==
    /\ status_code = 302
    /\ pc = "returned"
    /\ result = Some("Error: HTTP 302")

PhaseTimeouts == {"ConnectTimeout", "ReadTimeout", "WriteTimeout"}

ConnectionOrStatusValues ==
    {"Error: Could not connect to " \o valves.TOOLSET_API_URL}
        \cup {"Error: HTTP " \o ToString(c) : c \in StatusCodes}

UnclassifiedValues ==
    {"Error: " \o e.msg : e \in SinkExceptions \cup ReadExceptions}

\* C9 as stated: the value returned after a timeout tells which of the
\* three timeouts it was, and is no other failure value.
C9_TimeoutIdentified ==
    (pc = "returned" /\ last_exc \in PhaseTimeouts)
        => /\ \A c \in PhaseTimeouts \ {last_exc} :
                result # Some(ExceptClauses(Exc(c, ""), valves.TOOLSET_API_URL).value)
           /\ result[1] \notin ConnectionOrStatusValues \cup UnclassifiedValues

\* C9 amended: each of the three timeouts is reported by the same value,
\* "Error: Request timed out", which is neither the connection-error value
\* nor an HTTP-status value.
C9_TimeoutValue ==
    (pc = "returned" /\ last_exc \in PhaseTimeouts)
        => /\ result = Some("Error: Request timed out")
           /\ result[1] \notin ConnectionOrStatusValues

C9_Witness ==
    /\ pc = "returned"
    /\ last_exc = "WriteTimeout"
    /\ result = Some("Error: Request timed out")

\* C10: the step that cancels pipe() and every later step emit nothing:
\* the text in token_buffer is not flushed, no value is returned, and the
\* client and the response are closed.
C10_CancelDropsBuffer ==
    /\ [][ last_exc' = "CancelledError"
             => /\ emitted' = emitted
                /\ token_buffer' = token_buffer
                /\ pc' = "raised"
                /\ result' = None
                /\ client' = "closed"
                /\ response' \in {"none", "closed"} ]_vars
    /\ [](last_exc = "CancelledError" => (client = "closed" /\ response # "open"))

C10_Witness ==
    /\ last_exc = "CancelledError"
    /\ pc = "raised"
    /\ token_buffer = "He"
    /\ emitted = <<>>
    /\ response = "closed"

\* C11: once pipe() has ended, by a value or by an exception, neither the
\* client nor the response is open; an invocation that failed the
\* configuration check never had either.
C11_ConnectionReleased ==
    /\ pc \in {"returned", "raised"} => (client # "open" /\ response # "open")
    /\ ConfigCheck(valves) # None => (client = "none" /\ response = "none")
    /\ response = "open" => client = "open"

C11_Witness ==
    /\ pc = "returned"
    /\ result = Some("")
    /\ lines_read > 0
    /\ client = "closed"
    /\ response = "closed"

\* a data line other than the sentinel
IsDataFrame(l) == startswith(l, DATA_PREFIX) /\ SliceFrom(l, DATA_PREFIX) # DONE

\* C12: whenever the loop is about to take a line and the line before was a
\* data line, current_event is None, whatever the tag was and whatever the
\* frame held; a tag therefore reaches at most the next data line.
C12_TagCleared ==
    /\ []((pc = "lines" /\ lines_read > 0 /\ IsDataFrame(line)) => current_event = None)
    /\ [][ (lines_read' = lines_read + 1 /\ IsDataFrame(line') /\ pc' = "lines")
             => current_event' = None ]_vars
    /\ [][ (pc = "emit" /\ pc' = "lines") => current_event' = None ]_vars

C12_Witness ==
    /\ pc = "lines"
    /\ IsMalformedFrame(line)
    /\ frame_tag = Some(STATUS)
    /\ current_event = None

\* the parsed value holds a non-empty string at choices[0].delta.content
HasContent(v) ==
    /\ IsDict(v)
    /\ "choices" \in DOMAIN v.f
    /\ v.f["choices"].t = "list"
    /\ v.f["choices"].e # <<>>
    /\ IsDict(v.f["choices"].e[1])
    /\ "delta" \in DOMAIN v.f["choices"].e[1].f
    /\ IsDict(v.f["choices"].e[1].f["delta"])
    /\ "content" \in DOMAIN v.f["choices"].e[1].f["delta"].f
    /\ v.f["choices"].e[1].f["delta"].f["content"].t = "str"
    /\ v.f["choices"].e[1].f["delta"].f["content"].s # ""

\* a data line that parses as JSON
IsParsedFrame(l) == IsDataFrame(l) /\ json_loads(SliceFrom(l, DATA_PREFIX)).ok

ParsedValue(l) == json_loads(SliceFrom(l, DATA_PREFIX)).v

\* C13: under a tag that is neither status nor source, handling a frame
\* that parses but holds no non-empty string content leaves token_buffer
\* alone, emits nothing and goes on to the next line.
C13_NoContentContinues ==
    [][ (/\ lines_read' = lines_read + 1
         /\ current_event \notin {Some(STATUS), Some(SOURCE)}
         /\ IsParsedFrame(line')
         /\ ~HasContent(ParsedValue(line')))
          => /\ token_buffer' = token_buffer
             /\ emitted' = emitted
             /\ pc' = "lines"
             /\ result' = None ]_vars

\* C14: a line that is empty once stripped, or that starts with neither
\* prefix, changes nothing of the parse state and starts no sink call.
C14_OtherLinesIgnored ==
    [][ (/\ lines_read' = lines_read + 1
         /\ \/ line' = <<>>
            \/ ~startswith(line', EVENT_PREFIX) /\ ~startswith(line', DATA_PREFIX))
          => /\ pc' = "lines"
             /\ UNCHANGED <<current_event, token_buffer, last_flush, emitted, result,
                            data, flush_from, client, response, appended, done_seen,
                            last_exc>> ]_vars

C14_Witness ==
    /\ line = <<": keep-alive">>
    /\ lines_read = 3
    /\ pc = "lines"
    /\ current_event = Some(STATUS)
    /\ token_buffer = "He"

\* C15: the sink is only ever called by flush_buffer() with a non-empty
\* buffer, so every Message has content; last_flush moves only with such a
\* Message; and the final flush that follows the flush of [DONE] finds the
\* buffer empty and calls nothing.
C15_FlushIdempotent ==
    /\ [](\A i \in 1..Len(emitted) :
              emitted[i].type = "message" => emitted[i].content # "")
    /\ [](pc = "flush" => token_buffer # "")
    /\ [](done_seen => flush_from # "final")
    /\ [][ (pc # "connecting" /\ last_flush' # last_flush)
             => (token_buffer # "" /\ emitted' = Append(emitted, Message(token_buffer))) ]_vars
    /\ [][ (pc = "lines" /\ token_buffer = "" /\ pc' = "returned" /\ last_exc' = "")
             => (emitted' = emitted /\ last_flush' = last_flush) ]_vars

C15_Witness ==
    /\ event_emitter
    /\ done_seen
    /\ pc = "returned"
    /\ result = Some("")
    /\ lines_read = 2
    /\ ~batch_only
    /\ token_buffer = ""
    /\ emitted = <<Message("He")>>

\* the text at choices[0].delta.content of a value that HasContent
ContentOf(v) == v.f["choices"].e[1].f["delta"].f["content"].s

\* C16: a frame with content handled under a tag other than status and
\* source starts no Status or Citation: with a sink its content is appended
\* to token_buffer, as it is when there is no tag; and a Status or Citation
\* is only ever emitted for a frame found under the status or source tag.
C16_OtherTagBuffers ==
    /\ [][ (/\ lines_read' = lines_read + 1
            /\ current_event \notin {Some(STATUS), Some(SOURCE)}
            /\ IsParsedFrame(line')
            /\ HasContent(ParsedValue(line')))
             => /\ pc' \in {"lines", "flush"}
                /\ pc' = "flush" => flush_from' = "token"
                /\ emitted' = emitted
                /\ token_buffer' = IF event_emitter
                                   THEN token_buffer \o ContentOf(ParsedValue(line'))
                                   ELSE token_buffer ]_vars
    /\ [][ (emitted' # emitted /\ emitted'[Len(emitted')].type \in {"status", "citation"})
             => frame_tag \in {Some(STATUS), Some(SOURCE)} ]_vars

C16_Witness ==
    /\ frame_tag = Some(<<"message">>)
    /\ IsParsedFrame(line)
    /\ pc = "lines"
    /\ token_buffer = "He"
    /\ emitted = <<>>

\* the data field of a parsed frame, or the empty map
FrameData(v) == IF IsDict(v) /\ "data" \in DOMAIN v.f THEN v.f["data"] ELSE EmptyDict

\* C17: with a sink, a frame that parses and is found under the status or
\* source tag leads to the sink call for its event, after the flush if one
\* is due, without touching the buffered text; the event accepted is the
\* Status, or Citation, of the frame's data field or of the empty map.
C17_TaggedEmitsOne ==
    /\ [][ (/\ lines_read' = lines_read + 1
            /\ event_emitter
            /\ current_event \in {Some(STATUS), Some(SOURCE)}
            /\ IsParsedFrame(line'))
             => /\ pc' \in {"flush", "emit"}
                /\ appended' = appended
                /\ token_buffer' = token_buffer ]_vars
    /\ [][ (pc = "flush" /\ flush_from \in {"status", "source"} /\ emitted' # emitted)
             => pc' = "emit" ]_vars
    /\ [][ (pc = "emit" /\ emitted' # emitted)
             => /\ pc' = "lines"
                /\ appended' = appended
                /\ emitted' = Append(emitted,
                        IF frame_tag = Some(STATUS)
                        THEN Status(FrameData(ParsedValue(line)))
                        ELSE Citation(FrameData(ParsedValue(line)))) ]_vars

StreamFailures == {"ReadTimeout", "ReadError", "RemoteProtocolError", "RuntimeError"}

ToolEffective(v) ==
    \/ v.TAVILY_API_KEY # ""
         /\ (v.ENABLE_WEB_SEARCH \/ v.ENABLE_WEB_SCRAPE \/ v.ENABLE_DEEP_RESEARCH)
    \/ v.COMFYUI_BASE_URL # ""
         /\ (v.ENABLE_IMAGE_GENERATION \/ v.ENABLE_IMAGE_EDIT \/ v.ENABLE_IMAGE_BLEND)
    \/ v.ENABLE_SANDBOX
    \/ v.ENABLE_MEMORY
    \/ v.ENABLE_DATE_TIME
    \/ v.FILE_RECALL_INSTANCE_ID # "" /\ v.ENABLE_FILE_RECALL

\* C19: the payload names the tool-calling provider and model with
\* use_tools the boolean true exactly when a tool is effectively enabled,
\* and otherwise the conversational ones with use_tools the boolean false.
C19_ToolGating ==
    payload # None
        => payload[1] =
             IF ToolEffective(valves)
             THEN [ llm_provider |-> valves.TOOL_CALLING_LLM_PROVIDER,
                    llm_model |-> valves.TOOL_CALLING_LLM_MODEL,
                    use_tools |-> JBool(TRUE) ]
             ELSE [ llm_provider |-> valves.CONVERSATIONAL_LLM_PROVIDER,
                    llm_model |-> valves.CONVERSATIONAL_LLM_MODEL,
                    use_tools |-> JBool(FALSE) ]

====
